---- MODULE Spec2Model ----
(* Model of designupload.py: the token normaliser clean_token, the HTTP     *)
(* helpers api_get / api_post with their bounded retry on 429, and the      *)
(* top-to-bottom script run (verify shop, catalog reads, batch upload).     *)
(*                                                                          *)
(* Strings are sequences of characters; a character is a one-letter string  *)
(* or a name: "SP" space, "TAB", "NL", "DQ" double quote, "SQ" single       *)
(* quote, "ZWSP" U+200B, "ZWNJ" U+200C, "ZWJ" U+200D, "BOM" U+FEFF.         *)
(* Times are in hundredths of a second (1.25 s = 125).                      *)
EXTENDS Integers, Sequences, FiniteSets, TLC

VARIABLES raw, api_token, pc, call, called, shops_status,
          nprov, pidx, working, nfiles, clicked, idx, results

vars == <<raw, api_token, pc, call, called, shops_status,
          nprov, pidx, working, nfiles, clicked, idx, results>>

(* ------------------------------ bounds ---------------------------------- *)
MaxLen == 3
MaxRetries == 3
MaxFiles == 3
NumProviders == 2

(* ------------------------- token normaliser ----------------------------- *)
ZERO_WIDTH == {"ZWSP", "ZWNJ", "ZWJ", "BOM"}

Whitespace == {"SP", "TAB", "NL"}

Quotes == {"DQ", "SQ"}

LowerChar(c) ==
  CASE c = "B" -> "b"
    [] c = "E" -> "e"
    [] c = "A" -> "a"
    [] c = "R" -> "r"
    [] OTHER -> c

lower(t) == [k \in 1..Len(t) |-> LowerChar(t[k])]

startswith(t, p) == Len(t) >= Len(p) /\ SubSeq(t, 1, Len(p)) = p

RECURSIVE LStrip(_, _)
LStrip(t, S) == IF t # <<>> /\ Head(t) \in S THEN LStrip(Tail(t), S) ELSE t

RECURSIVE RStrip(_, _)
RStrip(t, S) ==
  IF t # <<>> /\ t[Len(t)] \in S THEN RStrip(SubSeq(t, 1, Len(t) - 1), S) ELSE t

strip(t, S) == RStrip(LStrip(t, S), S)

Remove(t, S) == SelectSeq(t, LAMBDA c : c \notin S)

BearerSp == <<"b", "e", "a", "r", "e", "r", "SP">>

HasBearerPrefix_CaseSensitive(t) == startswith(t, BearerSp)

HasBearerPrefix(t) == startswith(lower(t), BearerSp)

DropBearer(t) == IF HasBearerPrefix(t) THEN SubSeq(t, 8, Len(t)) ELSE t

OneLayer(t, q) ==
  IF Len(t) >= 2 /\ t[1] = q /\ t[Len(t)] = q THEN SubSeq(t, 2, Len(t) - 1) ELSE t

StripQuotes_OneLayer(t) == OneLayer(OneLayer(strip(t, Whitespace), "DQ"), "SQ")

StripQuotes(t) == strip(strip(strip(t, Whitespace), {"DQ"}), {"SQ"})

RemoveWhitespace(t) == Remove(t, Whitespace)

RemoveZeroWidth(t) == Remove(t, ZERO_WIDTH)

clean_token(r) ==
  IF r = <<>> THEN <<>>
  ELSE LET t1 == strip(r, Whitespace)
           t2 == DropBearer(t1)
           t3 == StripQuotes(t2)
           t4 == RemoveWhitespace(t3)
       IN  RemoveZeroWidth(t4)

(* ----------------------------- HTTP helpers ----------------------------- *)
DefaultRetries == 2
Backoff == 125
RateLimited == 429
TransportError == 0
NoStatus == -1

Responses == {200, 401, 404, 429, 500, TransportError}

NewCall(m, p, R, B) ==
  [method |-> m, path |-> p, retries |-> R, backoff |-> B, i |-> 0,
   resps |-> <<>>, sleeps |-> <<>>, outcome |-> "attempting",
   status |-> NoStatus, shown |-> FALSE]

NoCall == [NewCall("-", "-", 0, 0) EXCEPT !.outcome = "idle"]

Wait_Constant(c) == c.backoff

Wait(c) == c.backoff * (c.i + 1)

ShouldRetry_Forever(c, s) == s = RateLimited

ShouldRetry_AnyError(c, s) == s >= 400 /\ c.i < c.retries - 1

ShouldRetry(c, s) == s = RateLimited /\ c.i < c.retries - 1

raise_for_status(s) == s >= 400 /\ s < 600

Request(c, s) ==
  LET r == [c EXCEPT !.resps = Append(@, s), !.status = s]
  IN  IF s = TransportError THEN [r EXCEPT !.outcome = "transport"]
      ELSE IF ShouldRetry(c, s)
        THEN [r EXCEPT !.sleeps = Append(@, Wait(c)), !.i = @ + 1]
      ELSE IF s >= 400
        THEN [r EXCEPT !.shown = TRUE,
                       !.outcome = IF raise_for_status(s) THEN "raised" ELSE "returned"]
      ELSE [r EXCEPT !.outcome = "returned"]

Step(c, s) ==
  IF c.i < c.retries THEN Request(c, s) ELSE [c EXCEPT !.outcome = "fellthrough"]

Issued(c) == IF c.i < c.retries THEN {c.path} ELSE {}

Ended(c) == c.outcome \in {"returned", "raised", "transport", "fellthrough"}

(* ------------------------------ script run ------------------------------ *)
CallStates == {"shops", "blueprints", "providers", "probe", "variants",
               "upload", "create", "publish"}

CallFor(p) ==
  CASE p = "shops"      -> NewCall("GET", "/shops.json", DefaultRetries, Backoff)
    [] p = "blueprints" -> NewCall("GET", "/catalog/blueprints.json", DefaultRetries, Backoff)
    [] p = "providers"  -> NewCall("GET", "/catalog/print_providers.json", DefaultRetries, Backoff)
    [] p = "probe"      -> NewCall("GET", "/catalog/variants.json", DefaultRetries, Backoff)
    [] p = "variants"   -> NewCall("GET", "/catalog/variants.json", DefaultRetries, Backoff)
    [] p = "upload"     -> NewCall("POST", "/uploads/images.json", DefaultRetries, Backoff)
    [] p = "create"     -> NewCall("POST", "/products.json", DefaultRetries, Backoff)
    [] p = "publish"    -> NewCall("POST", "/publish.json", DefaultRetries, Backoff)

(* the call record after a step that leads to script position np *)
NextCall(c, np) ==
  IF c.outcome = "attempting" THEN c
  ELSE IF np \in CallStates THEN CallFor(np) ELSE c

BlankFile == [upload |-> NoStatus, create |-> NoStatus, publish |-> NoStatus,
              reports |-> <<>>]

(* lines 33-38, 64-66: read the token, normalise it, stop when it is empty *)
CleanToken ==
  /\ pc = "input"
  /\ api_token' = clean_token(raw)
  /\ pc' = IF api_token' = <<>> THEN "stopped" ELSE "shops"
  /\ call' = IF api_token' = <<>> THEN call ELSE CallFor("shops")
  /\ UNCHANGED <<raw, called, shops_status, nprov, pidx, working, nfiles,
                 clicked, idx, results>>

ShopsNext_IgnoreError(c, empty) ==
  CASE c.outcome = "attempting" -> "shops"
    [] c.outcome = "returned"   -> IF empty THEN "stopped" ELSE "blueprints"
    [] c.outcome = "raised"     -> "blueprints"
    [] OTHER                    -> "crashed"

ShopsNext(c, empty) ==
  CASE c.outcome = "attempting" -> "shops"
    [] c.outcome = "returned"   -> IF empty THEN "stopped" ELSE "blueprints"
    [] c.outcome = "raised"     -> "stopped"
    [] OTHER                    -> "crashed"

(* lines 68-75 *)
VerifyShop ==
  /\ pc = "shops"
  /\ \E s \in Responses, empty \in BOOLEAN :
       LET c == Step(call, s)
           np == ShopsNext(c, empty)
       IN  /\ pc' = np
           /\ call' = NextCall(c, np)
           /\ called' = called \cup Issued(call)
           /\ shops_status' = IF Ended(c) THEN c.status ELSE shops_status
  /\ UNCHANGED <<raw, api_token, nprov, pidx, working, nfiles, clicked, idx, results>>

ReadNext(c, here, ok) ==
  CASE c.outcome = "attempting" -> here
    [] c.outcome = "returned"   -> ok
    [] c.outcome = "raised"     -> "stopped"
    [] OTHER                    -> "crashed"

(* lines 79-100 *)
PickBlueprint ==
  /\ pc = "blueprints"
  /\ \E s \in Responses :
       LET c == Step(call, s)
           np == ReadNext(c, "blueprints", "providers")
       IN  /\ pc' = np
           /\ call' = NextCall(c, np)
           /\ called' = called \cup Issued(call)
  /\ UNCHANGED <<raw, api_token, shops_status, nprov, pidx, working, nfiles,
                 clicked, idx, results>>

(* lines 125-129 *)
ListProviders ==
  /\ pc = "providers"
  /\ \E s \in Responses, n \in 0..NumProviders :
       LET c == Step(call, s)
           np == ReadNext(c, "providers", IF n = 0 THEN "stopped" ELSE "probe")
       IN  /\ pc' = np
           /\ call' = NextCall(c, np)
           /\ called' = called \cup Issued(call)
           /\ nprov' = IF np = "probe" THEN n ELSE nprov
           /\ pidx' = IF np = "probe" THEN 1 ELSE pidx
  /\ UNCHANGED <<raw, api_token, shops_status, working, nfiles, clicked, idx, results>>

(* lines 106-123: (ok, cnt) of one probe, or the error that bubbles up *)
probe_provider_variants(c) ==
  CASE c.outcome = "attempting" -> "pending"
    [] c.outcome = "returned"   -> "ok"
    [] c.outcome = "raised"     -> IF c.status = 404 THEN "skip" ELSE "http_error"
    [] OTHER                    -> "error"

(* lines 131-155 *)
ProbeProviders ==
  /\ pc = "probe"
  /\ \E s \in Responses :
       LET c == Step(call, s)
           p == probe_provider_variants(c)
           w == IF p = "ok" THEN working + 1 ELSE working
           np == CASE p = "pending"    -> "probe"
                   [] p = "http_error" -> "stopped"
                   [] p = "error"      -> "crashed"
                   [] OTHER -> IF pidx < nprov THEN "probe"
                               ELSE IF w = 0 THEN "stopped" ELSE "variants"
       IN  /\ pc' = np
           /\ call' = NextCall(c, np)
           /\ called' = called \cup Issued(call)
           /\ working' = w
           /\ pidx' = IF p \in {"ok", "skip"} /\ pidx < nprov THEN pidx + 1 ELSE pidx
  /\ UNCHANGED <<raw, api_token, shops_status, nprov, nfiles, clicked, idx, results>>

(* lines 158-195, 210-213, 257-258: fetch the variants, pick colors, then    *)
(* enter the batch loop when files were uploaded and the button was pressed  *)
FetchVariants ==
  /\ pc = "variants"
  /\ \E s \in Responses, selected \in BOOLEAN :
       LET c == Step(call, s)
           np == ReadNext(c, "variants",
                          IF ~selected THEN "stopped"
                          ELSE IF nfiles > 0 /\ clicked THEN "upload" ELSE "done")
       IN  /\ pc' = np
           /\ call' = NextCall(c, np)
           /\ called' = called \cup Issued(call)
           /\ idx' = IF np = "upload" THEN 1 ELSE idx
  /\ UNCHANGED <<raw, api_token, shops_status, nprov, pidx, working, nfiles,
                 clicked, results>>

FileNext(k, n) == IF k < n THEN "upload" ELSE "done"

OnItemError_Abort(k, n) == "done"

(* lines 250-255: the except clauses report and the for loop goes on *)
OnItemError(k, n) == FileNext(k, n)

StageNext_FallThrough(c, here, ok) ==
  CASE c.outcome = "attempting" -> here
    [] OTHER                    -> ok

(* where the script goes after one request of a write call of file idx *)
StageNext(c, here, ok) ==
  CASE c.outcome = "attempting" -> here
    [] c.outcome = "returned"   -> ok
    [] OTHER                    -> OnItemError(idx, nfiles)

Report(c, last) ==
  CASE c.outcome = "attempting" -> <<>>
    [] c.outcome = "returned"   -> IF last THEN <<"success">> ELSE <<>>
    [] c.outcome = "raised"     -> <<"http_error">>
    [] OTHER                    -> <<"error">>

Stage(here, ok, last) ==
  /\ pc = here
  /\ \E s \in Responses :
       LET c == Step(call, s)
           np == StageNext(c, here, ok)
           rec == [results[idx] EXCEPT ![here] = c.status,
                                       !.reports = @ \o Report(c, last)]
       IN  /\ pc' = np
           /\ call' = NextCall(c, np)
           /\ called' = called \cup Issued(call)
           /\ results' = [results EXCEPT ![idx] = rec]
           /\ idx' = IF Ended(c) /\ np = "upload" THEN idx + 1 ELSE idx
  /\ UNCHANGED <<raw, api_token, shops_status, nprov, pidx, working, nfiles, clicked>>

(* lines 198-203, 217 *)
upload_image == Stage("upload", "create", FALSE)

(* lines 239-240 *)
CreateProduct == Stage("create", "publish", FALSE)

(* lines 243-248 *)
PublishProduct == Stage("publish", FileNext(idx, nfiles), TRUE)

(* ----------------------------- the helpers alone ------------------------ *)
ApiCall(m) ==
  /\ pc = "call"
  /\ call.method = m
  /\ call.outcome = "attempting"
  /\ \E s \in Responses : call' = Step(call, s)
  /\ called' = called \cup Issued(call)
  /\ UNCHANGED <<raw, api_token, pc, shops_status, nprov, pidx, working, nfiles,
                 clicked, idx, results>>

(* lines 41-50 *)
api_get == ApiCall("GET")

(* lines 52-61 *)
api_post == ApiCall("POST")

(* ----------------------------- specifications --------------------------- *)
Rest0 ==
  /\ api_token = <<>>
  /\ called = {}
  /\ shops_status = NoStatus
  /\ nprov = 0
  /\ pidx = 0
  /\ working = 0
  /\ idx = 0

FlowTokens == {<<>>, <<"SP">>, <<"SQ", "x", "SQ">>}

Init ==
  /\ raw \in FlowTokens
  /\ pc = "input"
  /\ call = NoCall
  /\ nfiles \in 0..MaxFiles
  /\ clicked \in BOOLEAN
  /\ results = [f \in 1..nfiles |-> BlankFile]
  /\ Rest0

Next ==
  \/ CleanToken
  \/ VerifyShop
  \/ PickBlueprint
  \/ ListProviders
  \/ ProbeProviders
  \/ FetchVariants
  \/ upload_image
  \/ CreateProduct
  \/ PublishProduct

Spec == Init /\ [][Next]_vars

Leads == {<<>>, <<"SP">>, <<"SQ">>, <<"DQ">>, <<"ZWSP">>}

Tails == {<<>>, <<"SQ">>, <<"DQ">>}

Words == {<<>>,
          <<"B", "e", "a", "r", "e", "r">>,
          <<"b", "E", "A", "r", "e", "R">>,
          <<"B", "e", "a", "r", "e", "r", "SP", "B", "e", "a", "r", "e", "r">>}

BodyAlphabet == {"x"} \cup Whitespace \cup Quotes \cup ZERO_WIDTH

Bodies == UNION {[1..n -> BodyAlphabet] : n \in 0..MaxLen}

InitToken ==
  /\ \E l \in Leads, w \in Words, b \in Bodies, t \in Tails : raw = l \o w \o b \o t
  /\ pc = "input"
  /\ call = NoCall
  /\ nfiles = 0
  /\ clicked = FALSE
  /\ results = <<>>
  /\ Rest0

NextToken == CleanToken

SpecToken == InitToken /\ [][NextToken]_vars

Backoffs == {0, Backoff, 300}

InitCall ==
  /\ raw = <<>>
  /\ pc = "call"
  /\ call \in {NewCall(m, "/path", R, B) :
                 m \in {"GET", "POST"}, R \in 0..MaxRetries, B \in Backoffs}
  /\ nfiles = 0
  /\ clicked = FALSE
  /\ results = <<>>
  /\ Rest0

NextCallOnly == api_get \/ api_post

SpecCall == InitCall /\ [][NextCallOnly]_vars

(* ------------------------------- properties ----------------------------- *)
Last(t) == t[Len(t)]

All429(t) == \A k \in 1..Len(t) : t[k] = RateLimited

(* C1: a call of api_get / api_post whose attempts all got a response ends   *)
(* either by returning the response of its final attempt (status < 400) or   *)
(* by raising an HTTP error carrying that final attempt's status; it never   *)
(* ends with neither a response nor an error.                                *)
C1_TerminalOutcome ==
  (pc = "call" /\ Ended(call) /\ call.outcome # "transport") =>
     /\ call.resps # <<>>
     /\ call.status = Last(call.resps)
     /\ \/ call.outcome = "returned" /\ call.status < 400
        \/ call.outcome = "raised" /\ call.status >= 400 /\ call.shown

(* C2: a call with retry count R issues at most R requests, sleeps only     *)
(* while attempts remain, and when all R responses are 429 it has issued     *)
(* exactly R requests and fails with an HTTP error for status 429.           *)
C2_AtMostRAttempts ==
  pc = "call" =>
     /\ Len(call.resps) <= call.retries
     /\ call.sleeps # <<>> => Len(call.sleeps) < call.retries
     /\ (call.resps # <<>> /\ All429(call.resps)) =>
          IF Len(call.resps) = call.retries
            THEN call.outcome = "raised" /\ call.status = RateLimited /\ call.shown
            ELSE call.outcome = "attempting" /\ Len(call.sleeps) = Len(call.resps)

C2_Witness ==
  /\ pc = "call"
  /\ call.retries >= 2
  /\ Len(call.resps) = call.retries
  /\ All429(call.resps)
  /\ call.outcome = "raised"

(* C3: a response with a status >= 400 other than 429 ends the call at once  *)
(* with that status: it is the last request of the call and no sleep         *)
(* follows it (the only sleeps are those of the earlier 429 responses).      *)
C3_FailFast ==
  pc = "call" =>
    \A k \in 1..Len(call.resps) :
      (call.resps[k] >= 400 /\ call.resps[k] # RateLimited) =>
         /\ k = Len(call.resps)
         /\ call.outcome = "raised"
         /\ call.status = call.resps[k]
         /\ Len(call.sleeps) = k - 1

C3_Witness ==
  /\ pc = "call"
  /\ call.retries >= 2
  /\ call.resps = <<500>>
  /\ call.outcome = "raised"
  /\ call.sleeps = <<>>

Script429 == <<RateLimited, RateLimited, 200>>

FollowsScript(c) ==
  Len(c.resps) <= Len(Script429) /\ c.resps = SubSeq(Script429, 1, Len(c.resps))

(* C4 as stated: with the retry count the program configures, a responder    *)
(* answering 429, 429, 200 makes the call succeed on the third attempt       *)
(* after two sleeps, the second longer than the first.                       *)
C4_Original ==
  (pc = "call" /\ call.retries = DefaultRetries /\ call.backoff = Backoff
     /\ Ended(call) /\ FollowsScript(call)) =>
       /\ call.outcome = "returned"
       /\ call.resps = Script429
       /\ Len(call.sleeps) = 2
       /\ call.sleeps[1] < call.sleeps[2]

(* C4 amended: against a responder answering 429, 429, 200 a call with a     *)
(* retry count of at least 3 and a positive backoff succeeds on the third    *)
(* attempt having slept backoff x 1 and then backoff x 2; with the retry     *)
(* count the program configures (2) it fails with 429 on the second attempt  *)
(* after a single sleep.                                                     *)
C4_Amended ==
  (pc = "call" /\ Ended(call) /\ FollowsScript(call)) =>
     /\ call.retries >= 3 =>
          /\ call.outcome = "returned"
          /\ call.resps = Script429
          /\ call.sleeps = <<call.backoff, 2 * call.backoff>>
          /\ call.backoff > 0 => call.sleeps[1] < call.sleeps[2]
     /\ call.retries = DefaultRetries =>
          /\ call.outcome = "raised"
          /\ call.status = RateLimited
          /\ call.resps = <<RateLimited, RateLimited>>
          /\ call.sleeps = <<call.backoff>>

C4_Witness ==
  /\ pc = "call"
  /\ call.retries >= 3
  /\ call.backoff = Backoff
  /\ call.resps = Script429
  /\ call.outcome = "returned"
  /\ call.sleeps = <<125, 250>>

Failed(st) == st = TransportError \/ st >= 400

Ok(st) == st > 0 /\ st < 400

NoFailure(f) ==
  ~Failed(results[f].upload) /\ ~Failed(results[f].create) /\ ~Failed(results[f].publish)

Successes == Cardinality({f \in 1..nfiles : results[f].reports = <<"success">>})

BatchRan == pc = "done" /\ clicked /\ nfiles > 0

(* C5: in the batch loop a failing call of one file is reported for that     *)
(* file and the loop goes on: every file gets its upload attempted, in list  *)
(* order, each file ends with exactly one report, and with three files of    *)
(* which only the second one's upload returns 500 the files one and three    *)
(* are published, two successes in all.                                      *)
C5_BatchIndependent ==
  /\ \A f \in 1..nfiles : Len(results[f].reports) <= 1
  /\ \A f, g \in 1..nfiles :
       (f < g /\ results[g].upload # NoStatus) => Len(results[f].reports) = 1
  /\ BatchRan =>
       \A f \in 1..nfiles :
          results[f].upload # NoStatus /\ Len(results[f].reports) = 1
  /\ (BatchRan /\ nfiles = 3 /\ results[2].upload = 500
        /\ NoFailure(1) /\ NoFailure(3)) =>
       /\ results[1].reports = <<"success">>
       /\ results[2].reports = <<"http_error">>
       /\ results[3].reports = <<"success">>
       /\ Successes = 2

C5_Witness ==
  /\ BatchRan
  /\ nfiles = 3
  /\ results[2].upload = 500
  /\ results[1].reports = <<"success">>
  /\ results[3].reports = <<"success">>

(* C6: when the GET on /shops.json ends with status 401 the run is halted    *)
(* with the error shown, and no request other than those on /shops.json is   *)
(* ever issued in that run.                                                  *)
C6_HaltOn401 ==
  shops_status = 401 =>
     /\ pc = "stopped"
     /\ call.path = "/shops.json"
     /\ call.outcome = "raised"
     /\ call.shown
     /\ called = {"/shops.json"}

C6_Witness ==
  /\ shops_status = 401
  /\ pc = "stopped"
  /\ Len(call.resps) = 2

(* C7: token normalisation is idempotent: normalising the normalised token   *)
(* gives the same token.                                                     *)
C7_Idempotent == pc # "input" => clean_token(api_token) = api_token

Wrapped(r, q) == Len(r) >= 2 /\ r[1] = q /\ r[Len(r)] = q

Count(t, S) == Len(SelectSeq(t, LAMBDA c : c \in S))

Inner(r) == SubSeq(r, 2, Len(r) - 1)

(* C8 as stated: for an input wrapped in matching quotes exactly one layer   *)
(* is stripped: one opening and one closing quote go, every other quote      *)
(* character is kept.                                                        *)
C8_Original ==
  (pc # "input" /\ (Wrapped(raw, "DQ") \/ Wrapped(raw, "SQ"))) =>
     /\ api_token = Remove(Inner(raw), Whitespace \cup ZERO_WIDTH)
     /\ Count(api_token, Quotes) = Count(raw, Quotes) - 2

(* C8 amended: for an input wrapped in matching quotes every leading and     *)
(* trailing occurrence of that quote character is stripped (all layers), and *)
(* under double quotes every leading and trailing single quote as well;      *)
(* the quote characters left in the interior are kept.                       *)
C8_Amended ==
  pc # "input" =>
     /\ Wrapped(raw, "SQ") =>
          api_token = Remove(strip(raw, {"SQ"}), Whitespace \cup ZERO_WIDTH)
     /\ Wrapped(raw, "DQ") =>
          api_token = Remove(strip(strip(raw, {"DQ"}), {"SQ"}),
                             Whitespace \cup ZERO_WIDTH)

C8_Witness ==
  /\ pc # "input"
  /\ raw = <<"SQ", "SQ", "x", "SQ", "SQ">>
  /\ api_token = <<"x">>

Trimmed(r) == strip(r, Whitespace)

Remainder(r) == SubSeq(Trimmed(r), 8, Len(Trimmed(r)))

StartsBearer(r, S) ==
  /\ Len(Trimmed(r)) >= 7
  /\ lower(SubSeq(Trimmed(r), 1, 6)) = <<"b", "e", "a", "r", "e", "r">>
  /\ Trimmed(r)[7] \in S

(* C9 as stated: for an input that starts, once trimmed, with Bearer in any  *)
(* casing followed by a space, tab or newline, the result is the             *)
(* normalisation of what follows that prefix.                                *)
C9_Original ==
  (pc # "input" /\ StartsBearer(raw, Whitespace)) =>
     api_token = clean_token(Remainder(raw))

(* C9 amended: for an input that starts, once trimmed, with Bearer in any    *)
(* casing followed by a space character, exactly those seven characters are  *)
(* removed, once: the result is the remainder with its surrounding           *)
(* whitespace and quotes stripped and all whitespace and zero-width          *)
(* characters removed (a second Bearer prefix in the remainder is kept).     *)
C9_Amended ==
  (pc # "input" /\ StartsBearer(raw, {"SP"})) =>
     api_token = Remove(strip(strip(strip(Remainder(raw), Whitespace), {"DQ"}), {"SQ"}),
                        Whitespace \cup ZERO_WIDTH)

C9_Witness ==
  /\ pc # "input"
  /\ raw = <<"SP", "b", "E", "A", "r", "e", "R", "SP", "x", "NL">>
  /\ api_token = <<"x">>

(* C10: within one file the write calls go upload, create, publish, each     *)
(* only after the previous one returned without error; a file is reported    *)
(* published only if its publish call succeeded, and a product whose publish *)
(* call fails stays created.                                                 *)
C10_StageOrder ==
  /\ \A f \in 1..nfiles :
       /\ results[f].create # NoStatus => Ok(results[f].upload)
       /\ results[f].publish # NoStatus => Ok(results[f].create)
       /\ results[f].reports = <<"success">> => Ok(results[f].publish)
  /\ pc = "create" => Ok(results[idx].upload) /\ results[idx].create \in {NoStatus, RateLimited}
  /\ pc = "publish" => Ok(results[idx].create) /\ results[idx].publish \in {NoStatus, RateLimited}
  /\ called \subseteq {CallFor(p).path : p \in CallStates}

C10_Witness ==
  /\ nfiles >= 1
  /\ Ok(results[1].upload)
  /\ Ok(results[1].create)
  /\ results[1].publish = 500
  /\ results[1].reports = <<"http_error">>

====
